---- MODULE Spec2Model ----
(***************************************************************************)
(* cra-append-sw (src/index.mjs): compile or read one entry file, then     *)
(* write the text to a destination chosen by --mode.                       *)
(*                                                                         *)
(* Files hold bytes.  fs.readFile(path, 'utf8', cb) hands the callback the *)
(* UTF-8 decoding of the bytes; fs.writeFile(path, text, 'utf8', cb)       *)
(* stores the UTF-8 encoding of the text.  Each fs call takes effect       *)
(* atomically at the step that runs its callback.  An invocation is one    *)
(* node process; its callbacks run one at a time on the event loop.        *)
(***************************************************************************)
EXTENDS Integers, Sequences, FiniteSets, TLC

VARIABLES fs, proc, runs, base, appended, lastWriter

vars == <<fs, proc, runs, base, appended, lastWriter>>

(* Bounds *)
MaxRuns == 2
NumProcs == 2

Procs == 1..NumProcs
\* The process of the one-at-a-time specification.
Main == CHOOSE p \in Procs : \A q \in Procs : p <= q

(***************************************************************************)
(* Paths are sequences of segments.                                        *)
(***************************************************************************)
BUILD_SW_FILE_PATH == <<"build", "service-worker.js">>

Basename(file) == file[Len(file)]

EntryFiles == { <<"src", "custom-sw.js">>, <<"src", "service-worker.js">> }

Paths == EntryFiles
         \cup { <<d, Basename(f)>> : d \in {"public", "build"}, f \in EntryFiles }
         \cup { BUILD_SW_FILE_PATH }

(***************************************************************************)
(* UTF-8, as fs.readFile(.., 'utf8') decodes and fs.writeFile(.., 'utf8')  *)
(* encodes.  A text is a sequence of Unicode scalar values.  A malformed   *)
(* byte sequence decodes to U+FFFD (65533), one per maximal subpart.       *)
(***************************************************************************)
Need(lead) ==
    IF lead >= 194 /\ lead <= 223 THEN 1
    ELSE IF lead >= 224 /\ lead <= 239 THEN 2
    ELSE IF lead >= 240 /\ lead <= 244 THEN 3
    ELSE 0

Lower(lead) == IF lead = 224 THEN 160 ELSE IF lead = 240 THEN 144 ELSE 128

Upper(lead) == IF lead = 237 THEN 159 ELSE IF lead = 244 THEN 143 ELSE 191

RECURSIVE DecodeFrom(_, _)
DecodeFrom(b, i) ==
    IF i > Len(b) THEN <<>>
    ELSE LET x == b[i] IN
      IF x < 128 THEN <<x>> \o DecodeFrom(b, i + 1)
      ELSE IF Need(x) = 0 THEN <<65533>> \o DecodeFrom(b, i + 1)
      ELSE
        LET n   == Need(x)
            ok1 == i + 1 <= Len(b) /\ b[i + 1] >= Lower(x) /\ b[i + 1] <= Upper(x)
            ok2 == ok1 /\ (n >= 2 => i + 2 <= Len(b) /\ b[i + 2] >= 128 /\ b[i + 2] <= 191)
            ok3 == ok2 /\ (n >= 3 => i + 3 <= Len(b) /\ b[i + 3] >= 128 /\ b[i + 3] <= 191)
            cp  == IF n = 1 THEN (x - 192) * 64 + (b[i + 1] - 128)
                   ELSE IF n = 2
                     THEN (x - 224) * 4096 + (b[i + 1] - 128) * 64 + (b[i + 2] - 128)
                   ELSE (x - 240) * 262144 + (b[i + 1] - 128) * 4096
                        + (b[i + 2] - 128) * 64 + (b[i + 3] - 128)
            eaten == IF ~ok1 THEN 1 ELSE IF ~ok2 THEN 2 ELSE 3
        IN IF ok3 THEN <<cp>> \o DecodeFrom(b, i + n + 1)
           ELSE <<65533>> \o DecodeFrom(b, i + eaten)

Decode(bytes) == DecodeFrom(bytes, 1)

EncodeChar(cp) ==
    IF cp < 128 THEN <<cp>>
    ELSE IF cp < 2048 THEN <<192 + (cp \div 64), 128 + (cp % 64)>>
    ELSE IF cp < 65536
      THEN <<224 + (cp \div 4096), 128 + ((cp \div 64) % 64), 128 + (cp % 64)>>
    ELSE <<240 + (cp \div 262144), 128 + ((cp \div 4096) % 64),
           128 + ((cp \div 64) % 64), 128 + (cp % 64)>>

RECURSIVE Encode(_)
Encode(text) ==
    IF text = <<>> THEN <<>> ELSE EncodeChar(Head(text)) \o Encode(Tail(text))

WellFormed(bytes) == Encode(Decode(bytes)) = bytes

(***************************************************************************)
(* JavaScript values that flow through the callbacks: a string, or         *)
(* undefined (the data argument of a failed fs.readFile).                  *)
(***************************************************************************)
Undef == [type |-> "undefined"]

Str(chars) == [type |-> "string", chars |-> chars]

\* String(undefined) is the nine characters "undefined".
JsString(v) ==
    IF v.type = "undefined"
      THEN <<117, 110, 100, 101, 102, 105, 110, 101, 100>>
      ELSE v.chars

\* data + code (line 174)
MutPlus(a, b) == Str(JsString(b) \o JsString(a))

Plus(a, b) == Str(JsString(a) \o JsString(b))

(***************************************************************************)
(* Promises: the first reject or resolve settles a promise; later calls on *)
(* a settled promise do nothing.                                           *)
(***************************************************************************)
\* The last call wins.
MutSettle(state, outcome) == outcome

Settle(state, outcome) == IF state = "pending" THEN outcome ELSE state

(***************************************************************************)
(* The file system: a function from the paths that exist to their bytes.   *)
(***************************************************************************)

\* A read with another encoding: every byte becomes one character.
MutReadFile(files, path) == files[path]

\* The data fs.readFile(path, 'utf8', cb) hands to cb when it succeeds.
ReadFile(files, path) == Decode(files[path])

\* With the 'a' flag instead of the default 'w': the bytes are added at the end.
MutWriteBytes(files, path, bytes) ==
    [q \in DOMAIN files \cup {path} |->
        IF q = path THEN (IF q \in DOMAIN files THEN files[q] ELSE <<>>) \o bytes
                    ELSE files[q]]

\* What a successful fs.writeFile(path, .., 'utf8', cb) leaves (flag 'w').
WriteBytes(files, path, bytes) ==
    [q \in DOMAIN files \cup {path} |-> IF q = path THEN bytes ELSE files[q]]

(***************************************************************************)
(* Command line (lines 16-21).  program.mode is compared with === against  *)
(* 'dev', 'build' and 'replace'; "other" stands for every other value      *)
(* (option absent, or a value that is none of the three).                  *)
(***************************************************************************)
Modes == {"dev", "build", "replace", "other"}

OverwriteModes == {"dev", "build", "replace"}

\* 'replace' handled like 'build'.
MutDestination(mode, file) ==
    IF mode = "dev" THEN <<"public", Basename(file)>>
    ELSE IF mode \in {"build", "replace"} THEN <<"build", Basename(file)>>
    ELSE BUILD_SW_FILE_PATH

\* lines 155-164: where append writes
Destination(mode, file) ==
    IF mode = "dev" THEN <<"public", Basename(file)>>
    ELSE IF mode = "build" THEN <<"build", Basename(file)>>
    ELSE BUILD_SW_FILE_PATH

\* lines 23-29
EnvFor(mode) == IF mode = "dev" THEN "development" ELSE "production"

(***************************************************************************)
(* The bundler's report to compiler.run's callback (err, stats) and the    *)
(* bundle it left in the memory file system.                               *)
(***************************************************************************)
Bundles == { <<87>>, <<87, 233>> }

Reports ==
    { [err |-> TRUE, hasErrors |-> FALSE, hasWarnings |-> FALSE, bundle |-> <<>>],
      [err |-> FALSE, hasErrors |-> TRUE, hasWarnings |-> FALSE, bundle |-> <<>>],
      [err |-> FALSE, hasErrors |-> TRUE, hasWarnings |-> TRUE, bundle |-> <<>>] }
    \cup { [err |-> FALSE, hasErrors |-> FALSE, hasWarnings |-> w, bundle |-> b] :
             w \in BOOLEAN, b \in Bundles }

NoReport == [err |-> FALSE, hasErrors |-> FALSE, hasWarnings |-> FALSE, bundle |-> <<>>]

\* Only errors are fatal.
MutCompileFails(rep) == rep.err \/ rep.hasErrors

\* lines 111-122: the callback rejects and returns
CompileFails(rep) == rep.err \/ rep.hasErrors \/ rep.hasWarnings

(***************************************************************************)
(* One invocation (one node process).                                      *)
(***************************************************************************)
IdleProc ==
    [ pc          |-> "idle",
      mode        |-> "other",
      skipCompile |-> FALSE,
      file        |-> <<>>,
      env         |-> "unset",
      stage1      |-> "none",      \* the promise of read(file) or compile(file)
      appendP     |-> "none",      \* the promise append returns
      code        |-> Undef,       \* append's first argument
      result      |-> <<>>,        \* the text handed to fs.writeFile
      dest        |-> <<>>,        \* the path handed to fs.writeFile
      readOk      |-> FALSE,       \* append's read of the existing file succeeded
      report      |-> NoReport,
      compiles    |-> 0,           \* calls of compiler.run
      appends     |-> 0,           \* calls of append
      ops         |-> 0,           \* asynchronous operations issued
      issued      |-> <<>>,        \* their kinds, in order of issue
      writes      |-> <<>>,        \* paths of the fs.writeFile calls issued
      inflight    |-> {},          \* operations issued and not yet called back
      modified    |-> {},          \* paths this invocation created or changed
      fsAtStart   |-> <<>> ]

Issue(r, kind) ==
    [r EXCEPT !.ops = @ + 1, !.issued = Append(@, kind), !.inflight = @ \cup {kind}]

\* lines 22-36: the action handler
StartIn(p, modes) ==
    /\ proc[p].pc = "idle"
    /\ \E m \in modes, s \in BOOLEAN, f \in EntryFiles :
         LET r == [IdleProc EXCEPT !.mode = m, !.skipCompile = s, !.file = f,
                                   !.env = EnvFor(m), !.stage1 = "pending",
                                   !.fsAtStart = fs]
         IN proc' = [proc EXCEPT ![p] =
              IF s THEN [Issue(r, "read") EXCEPT !.pc = "read"]
                   ELSE [Issue(r, "compile") EXCEPT !.pc = "compile", !.compiles = @ + 1]]
    /\ runs' = runs + 1
    /\ UNCHANGED <<fs, base, appended, lastWriter>>

Start(p) == StartIn(p, Modes)

\* An invocation with no --mode option (or a value that is none of the three).
StartDefault(p) == StartIn(p, Modes \ OverwriteModes)

\* No mode matches: every mode takes the branch that appends.
MutAppendCallAlwaysAppends(r, code) ==
    [Issue([r EXCEPT !.code = code, !.appends = @ + 1, !.appendP = "pending",
                     !.dest = BUILD_SW_FILE_PATH], "readSw")
       EXCEPT !.pc = "appendRead"]

\* The append branch starts its write without waiting for its read.
MutAppendCallNoWait(r, code) ==
    LET r1 == [r EXCEPT !.code = code, !.appends = @ + 1, !.appendP = "pending",
                        !.dest = Destination(r.mode, r.file)]
    IN IF r.mode \in OverwriteModes
         THEN [Issue(r1, "write") EXCEPT !.pc = "writeFile",
                                         !.result = JsString(code),
                                         !.writes = Append(@, r1.dest)]
         ELSE [Issue(Issue(r1, "readSw"), "write")
                 EXCEPT !.pc = "appendRead",
                        !.writes = Append(@, BUILD_SW_FILE_PATH)]

\* lines 154-187, up to the first fs call: append(code, file)
AppendCall(r, code) ==
    LET r1 == [r EXCEPT !.code = code, !.appends = @ + 1, !.appendP = "pending",
                        !.dest = Destination(r.mode, r.file)]
    IN IF r.mode \in OverwriteModes
         THEN [Issue(r1, "write") EXCEPT !.pc = "writeFile",
                                         !.result = JsString(code),
                                         !.writes = Append(@, r1.dest)]
         ELSE [Issue(r1, "readSw") EXCEPT !.pc = "appendRead"]

\* The handler runs on rejection too.
MutThen(r, value) == AppendCall(r, value)

\* lines 32 and 34: .then(result => append(result, file)) runs only on resolve
Then(r, value) ==
    IF r.stage1 = "resolved" THEN AppendCall(r, value) ELSE [r EXCEPT !.pc = "done"]

\* lines 136-146: the callback of read's fs.readFile, then line 32
ReadCallback(p) ==
    /\ proc[p].pc = "read"
    /\ \E error \in BOOLEAN :
         /\ (proc[p].file \notin DOMAIN fs) => error
         /\ LET r      == proc[p]
                result == IF error THEN Undef ELSE Str(ReadFile(fs, r.file))
                s1     == IF error THEN Settle(r.stage1, "rejected") ELSE r.stage1
                s2     == Settle(s1, "resolved")
                r1     == [r EXCEPT !.stage1 = s2, !.inflight = @ \ {"read"}]
            IN proc' = [proc EXCEPT ![p] = Then(r1, result)]
    /\ UNCHANGED <<fs, runs, base, appended, lastWriter>>

\* lines 109-127: the callback of compiler.run, then line 34
CompileCallback(p) ==
    /\ proc[p].pc = "compile"
    /\ \E rep \in Reports :
         /\ (proc[p].file \notin DOMAIN fs) => (rep.err \/ rep.hasErrors)
         /\ LET r  == proc[p]
                s1 == IF CompileFails(rep) THEN Settle(r.stage1, "rejected")
                                           ELSE Settle(r.stage1, "resolved")
                r1 == [r EXCEPT !.stage1 = s1, !.report = rep,
                                !.inflight = @ \ {"compile"}]
            IN proc' = [proc EXCEPT ![p] = Then(r1, Str(rep.bundle))]
    /\ UNCHANGED <<fs, runs, base, appended, lastWriter>>

\* lines 168-177: the callback of append's fs.readFile
AppendReadCallback(p) ==
    /\ proc[p].pc = "appendRead"
    /\ \E error \in BOOLEAN :
         /\ (BUILD_SW_FILE_PATH \notin DOMAIN fs) => error
         /\ LET r    == proc[p]
                data == IF error THEN Undef ELSE Str(ReadFile(fs, BUILD_SW_FILE_PATH))
                s1   == IF error THEN Settle(r.appendP, "rejected") ELSE r.appendP
                r1   == [r EXCEPT !.appendP = s1, !.readOk = ~error,
                                  !.inflight = @ \ {"readSw"},
                                  !.result = JsString(Plus(data, r.code)),
                                  !.writes = Append(@, BUILD_SW_FILE_PATH)]
            IN proc' = [proc EXCEPT ![p] = [Issue(r1, "write") EXCEPT !.pc = "appendWrite"]]
    /\ UNCHANGED <<fs, runs, base, appended, lastWriter>>

\* The effect of one fs.writeFile callback on the invocation and the files.
WriteDone(p, path, error, appending) ==
    LET r  == proc[p]
        s1 == IF error THEN Settle(r.appendP, "rejected") ELSE r.appendP
        s2 == Settle(s1, "resolved")
    IN /\ proc' = [proc EXCEPT ![p] =
                     [r EXCEPT !.appendP = s2, !.pc = "done",
                               !.inflight = @ \ {"write"},
                               !.modified = IF error THEN @ ELSE @ \cup {path}]]
       /\ fs' = IF error THEN fs ELSE WriteBytes(fs, path, Encode(r.result))
       /\ lastWriter' = IF error \/ path # BUILD_SW_FILE_PATH THEN lastWriter ELSE p
       /\ IF error \/ path # BUILD_SW_FILE_PATH
            THEN UNCHANGED <<base, appended>>
            ELSE IF appending /\ r.readOk
              THEN /\ appended' = Append(appended, JsString(r.code))
                   /\ base' = base
              ELSE /\ appended' = <<>>
                   /\ base' = r.result
       /\ UNCHANGED runs

\* lines 177-183: the callback of append's fs.writeFile
AppendWriteCallback(p) ==
    /\ proc[p].pc = "appendWrite"
    /\ \E error \in BOOLEAN : WriteDone(p, BUILD_SW_FILE_PATH, error, TRUE)

\* lines 189-198: the callback of writeFile's fs.writeFile
WriteFileCallback(p) ==
    /\ proc[p].pc = "writeFile"
    /\ \E error \in BOOLEAN : WriteDone(p, proc[p].dest, error, FALSE)

\* The process ends; the next invocation is a new process.
Exit(p) ==
    /\ proc[p].pc = "done"
    /\ proc' = [proc EXCEPT ![p] = IdleProc]
    /\ UNCHANGED <<fs, runs, base, appended, lastWriter>>

(***************************************************************************)
(* Initial file systems.                                                   *)
(***************************************************************************)
EntryContents == { <<65>>, <<195, 169>>, <<255, 66>> }

SwContents == { <<>>, <<69>>, <<69, 128>> }

OldContent == <<79>>

Some(S) == { <<>> } \cup { <<c>> : c \in S }

Files(e1, e2, sw, old) ==
    LET Opt(q) == IF q = <<"src", "custom-sw.js">> THEN e1
                  ELSE IF q = <<"src", "service-worker.js">> THEN e2
                  ELSE IF q = BUILD_SW_FILE_PATH THEN sw
                  ELSE old
    IN [q \in { q \in Paths : Opt(q) # <<>> } |-> Opt(q)[1]]

InitWith(fileSystems) ==
    /\ fs \in fileSystems
    /\ proc = [p \in Procs |-> IdleProc]
    /\ runs = 0
    /\ base = IF BUILD_SW_FILE_PATH \in DOMAIN fs
                THEN Decode(fs[BUILD_SW_FILE_PATH]) ELSE <<>>
    /\ appended = <<>>
    /\ lastWriter = 0

Init ==
    InitWith({ Files(e1, e2, sw, old) :
                 e1 \in Some(EntryContents), e2 \in Some({ <<66>> }),
                 sw \in Some(SwContents), old \in Some({ OldContent }) })

\* Invocation after invocation, one at a time.
Next ==
    \/ (runs < MaxRuns /\ Start(Main))
    \/ ReadCallback(Main)
    \/ CompileCallback(Main)
    \/ AppendReadCallback(Main)
    \/ AppendWriteCallback(Main)
    \/ WriteFileCallback(Main)
    \/ Exit(Main)

Spec == Init /\ [][Next]_vars

(***************************************************************************)
(* Concurrent invocations: NumProcs processes started at any time, their   *)
(* callbacks interleaved, on one file system with no lock.                 *)
(***************************************************************************)
InitRace ==
    InitWith({ Files(<< <<65>> >>, << <<66>> >>, <<sw>>, <<>>) :
                 sw \in SwContents \ { <<>> } })

NextRace ==
    \E p \in Procs :
        \/ StartDefault(p)
        \/ ReadCallback(p)
        \/ CompileCallback(p)
        \/ AppendReadCallback(p)
        \/ AppendWriteCallback(p)

SpecRace == InitRace /\ [][NextRace]_vars

(***************************************************************************)
(* Properties                                                              *)
(***************************************************************************)
RECURSIVE Flatten(_)
Flatten(texts) ==
    IF texts = <<>> THEN <<>> ELSE Head(texts) \o Flatten(Tail(texts))

\* The two file systems agree on every path outside S.
SameExcept(f1, f2, S) ==
    \A q \in Paths \ S :
        /\ (q \in DOMAIN f1) <=> (q \in DOMAIN f2)
        /\ (q \in DOMAIN f1) => f1[q] = f2[q]

Finished(p) == proc[p].pc = "done"

Succeeded(p) == Finished(p) /\ proc[p].appendP = "resolved"

DefaultMode(p) == proc[p].pc # "idle" /\ proc[p].mode \notin {"dev", "build", "replace"}

\* The destination the mode table gives for invocation p.
TableDest(p) ==
    IF proc[p].mode = "dev" THEN <<"public", Basename(proc[p].file)>>
    ELSE IF proc[p].mode = "build" THEN <<"build", Basename(proc[p].file)>>
    ELSE <<"build", "service-worker.js">>

\* The first asynchronous operation of invocation p.
FirstOp(p) == IF proc[p].skipCompile THEN "read" ELSE "compile"

IsPrefix(a, b) == Len(a) <= Len(b) /\ a = SubSeq(b, 1, Len(a))

(* C1: a successful append in mode dev, build or replace has issued one    *)
(* write, to public/<basename> (dev), build/<basename> (build) or          *)
(* build/service-worker.js (replace); that file then holds the produced    *)
(* text, whatever it held before, and every other file is as it was.       *)
C1_OverwriteWritesTableDest ==
    \A p \in Procs :
        (Succeeded(p) /\ proc[p].mode \in {"dev", "build", "replace"}) =>
            /\ proc[p].writes = << TableDest(p) >>
            /\ proc[p].modified = { TableDest(p) }
            /\ TableDest(p) \in DOMAIN fs
            /\ proc[p].code.type = "string"
            /\ fs[TableDest(p)] = Encode(proc[p].code.chars)
            /\ Decode(fs[TableDest(p)]) = proc[p].code.chars
            /\ SameExcept(fs, proc[p].fsAtStart, { TableDest(p) })

\* replace mode, an entry not named service-worker.js, over an existing file
C1_Witness ==
    \E p \in Procs :
        /\ Succeeded(p)
        /\ proc[p].mode = "replace"
        /\ Basename(proc[p].file) # "service-worker.js"
        /\ BUILD_SW_FILE_PATH \in DOMAIN proc[p].fsAtStart
        /\ proc[p].fsAtStart[BUILD_SW_FILE_PATH] # fs[BUILD_SW_FILE_PATH]

(* C2: a successful default-mode run targets build/service-worker.js and   *)
(* leaves it holding what it held followed by the new text, nothing in     *)
(* between; after successful default-mode runs with texts C1..Cn on a file *)
(* holding E it holds E ++ C1 ++ ... ++ Cn, the same text twice included.  *)
C2_DefaultAppends ==
    /\ \A p \in Procs :
         (Succeeded(p) /\ DefaultMode(p)) =>
            /\ proc[p].writes = << <<"build", "service-worker.js">> >>
            /\ <<"build", "service-worker.js">> \in DOMAIN proc[p].fsAtStart
            /\ Decode(fs[<<"build", "service-worker.js">>])
                 = Decode(proc[p].fsAtStart[<<"build", "service-worker.js">>])
                   \o proc[p].code.chars
            /\ WellFormed(proc[p].fsAtStart[<<"build", "service-worker.js">>]) =>
                 fs[<<"build", "service-worker.js">>]
                   = proc[p].fsAtStart[<<"build", "service-worker.js">>]
                     \o Encode(proc[p].code.chars)
    /\ (<<"build", "service-worker.js">> \in DOMAIN fs) =>
         Decode(fs[<<"build", "service-worker.js">>]) = base \o Flatten(appended)

\* two successful default-mode runs with the same text: it is there twice
C2_Witness ==
    /\ Succeeded(Main) /\ DefaultMode(Main)
    /\ Len(appended) = 2
    /\ appended[1] = appended[2]
    /\ appended[1] # <<>>
    /\ Decode(fs[BUILD_SW_FILE_PATH]) = base \o appended[1] \o appended[1]

(* C3: in default mode, once the read of build/service-worker.js has       *)
(* failed, no write is issued, the files are as they were, and append is   *)
(* rejected.                                                               *)
C3_FailedReadStops ==
    \A p \in Procs :
        (DefaultMode(p) /\ proc[p].pc \in {"appendWrite", "done"}
           /\ proc[p].appends = 1 /\ ~proc[p].readOk) =>
            /\ proc[p].appendP = "rejected"
            /\ proc[p].writes = <<>>
            /\ fs = proc[p].fsAtStart

(* C4: with --skip-compile and an entry file that is missing (or whose     *)
(* read fails), read rejects, append is not called, and in every mode the  *)
(* files after the run are the files before it.                            *)
C4_FailedEntryReadNoEffect ==
    \A p \in Procs :
        /\ (Finished(p) /\ proc[p].skipCompile
              /\ proc[p].file \notin DOMAIN proc[p].fsAtStart) =>
             proc[p].stage1 = "rejected"
        /\ (Finished(p) /\ proc[p].skipCompile /\ proc[p].stage1 = "rejected") =>
             /\ proc[p].appends = 0
             /\ proc[p].writes = <<>>
             /\ proc[p].modified = {}
             /\ fs = proc[p].fsAtStart

C4_Witness ==
    \E p \in Procs :
        /\ Finished(p) /\ proc[p].skipCompile
        /\ proc[p].file \notin DOMAIN proc[p].fsAtStart
        /\ proc[p].stage1 = "rejected"
        /\ DefaultMode(p)
        /\ BUILD_SW_FILE_PATH \notin DOMAIN fs

(* C5: compile is rejected exactly when the bundler reports an internal    *)
(* error, an error or a warning (a warning alone is enough); it resolves,  *)
(* with the bundle text, only on a report with none of them.               *)
C5_WarningsAreFatal ==
    \A p \in Procs :
        (proc[p].compiles = 1 /\ proc[p].pc \notin {"idle", "compile"}) =>
            /\ (proc[p].report.err \/ proc[p].report.hasErrors
                  \/ proc[p].report.hasWarnings) <=> proc[p].stage1 = "rejected"
            /\ proc[p].stage1 = "resolved" =>
                 /\ ~proc[p].report.err
                 /\ ~proc[p].report.hasErrors
                 /\ ~proc[p].report.hasWarnings
                 /\ proc[p].code = [type |-> "string", chars |-> proc[p].report.bundle]
            /\ proc[p].stage1 \in {"resolved", "rejected"}

\* a report with warnings and no error
C5_Witness ==
    \E p \in Procs :
        /\ proc[p].compiles = 1 /\ Finished(p)
        /\ proc[p].report.hasWarnings
        /\ ~proc[p].report.hasErrors /\ ~proc[p].report.err
        /\ proc[p].report.bundle # <<>>
        /\ proc[p].stage1 = "rejected"
        /\ proc[p].appends = 0

(* C6: with --skip-compile the bundler is not run and append receives the  *)
(* entry file's text; in dev mode a successful run leaves                  *)
(* public/<basename> holding that text (and, the entry being well-formed   *)
(* UTF-8, the very same bytes).                                            *)
C6_SkipCompileRoundTrip ==
    \A p \in Procs :
        (proc[p].pc # "idle" /\ proc[p].skipCompile) =>
            /\ proc[p].compiles = 0
            /\ \A i \in 1..Len(proc[p].issued) : proc[p].issued[i] # "compile"
            /\ proc[p].appends >= 1 =>
                 /\ proc[p].file \in DOMAIN proc[p].fsAtStart
                 /\ proc[p].code = [type |-> "string",
                                    chars |-> Decode(proc[p].fsAtStart[proc[p].file])]
            /\ (Succeeded(p) /\ proc[p].mode = "dev") =>
                 /\ Decode(fs[<<"public", Basename(proc[p].file)>>])
                      = Decode(proc[p].fsAtStart[proc[p].file])
                 /\ WellFormed(proc[p].fsAtStart[proc[p].file]) =>
                      fs[<<"public", Basename(proc[p].file)>>]
                        = proc[p].fsAtStart[proc[p].file]

\* an entry file with a two-byte character, copied to public/
C6_Witness ==
    \E p \in Procs :
        /\ Succeeded(p) /\ proc[p].skipCompile /\ proc[p].mode = "dev"
        /\ proc[p].fsAtStart[proc[p].file] = <<195, 169>>
        /\ fs[<<"public", Basename(proc[p].file)>>] = <<195, 169>>

(* C7 (as stated): every finished invocation, whatever the outcome of its  *)
(* calls, has issued exactly one write and created or modified exactly one *)
(* file.                                                                   *)
C7_AlwaysOneWrite ==
    \A p \in Procs :
        Finished(p) => (Len(proc[p].writes) = 1 /\ Cardinality(proc[p].modified) = 1)

(* C7 (amended): an invocation issues at most one write, and only to the   *)
(* destination of its mode: exactly one once its first stage (compile or   *)
(* read) has resolved, none when that stage is rejected.  It creates or    *)
(* modifies at most one file, that destination: none when the first stage  *)
(* is rejected, exactly one when append succeeds.                          *)
C7_OneWriteAfterFirstStage ==
    \A p \in Procs :
        (proc[p].pc # "idle") =>
            /\ Len(proc[p].writes) <= 1
            /\ \A i \in 1..Len(proc[p].writes) : proc[p].writes[i] = TableDest(p)
            /\ proc[p].modified \subseteq { TableDest(p) }
            /\ SameExcept(fs, proc[p].fsAtStart, proc[p].modified)
            /\ Finished(p) =>
                 /\ (proc[p].stage1 = "resolved") <=> (Len(proc[p].writes) = 1)
                 /\ (proc[p].stage1 = "rejected") <=> (proc[p].writes = <<>>)
                 /\ (proc[p].stage1 = "rejected") => proc[p].modified = {}
                 /\ Succeeded(p) => proc[p].modified = { TableDest(p) }

\* a compiled bundle written in build mode: one write, one file created
C7_Witness ==
    \E p \in Procs :
        /\ Succeeded(p)
        /\ ~proc[p].skipCompile
        /\ proc[p].mode = "build"
        /\ proc[p].writes = << TableDest(p) >>
        /\ proc[p].modified = { TableDest(p) }
        /\ TableDest(p) \notin DOMAIN proc[p].fsAtStart
        /\ TableDest(p) \in DOMAIN fs

(* C8 (as stated): an invocation issues at most two asynchronous           *)
(* operations.                                                             *)
C8_AtMostTwoOps ==
    \A p \in Procs : proc[p].ops <= 2

(* C8 (amended): in mode dev, build or replace an invocation issues at     *)
(* most two asynchronous operations, the first stage (read or compile)     *)
(* then one write; in default mode at most three, the first stage, the     *)
(* read of build/service-worker.js, then one write.                        *)
C8_OpsByMode ==
    \A p \in Procs :
        (proc[p].pc # "idle") =>
            /\ proc[p].ops = Len(proc[p].issued)
            /\ IF proc[p].mode \in {"dev", "build", "replace"}
                 THEN /\ proc[p].ops <= 2
                      /\ IsPrefix(proc[p].issued, << FirstOp(p), "write" >>)
                 ELSE /\ proc[p].ops <= 3
                      /\ IsPrefix(proc[p].issued, << FirstOp(p), "readSw", "write" >>)
            /\ (Finished(p) /\ proc[p].stage1 = "resolved") =>
                 proc[p].ops = IF proc[p].mode \in {"dev", "build", "replace"}
                                 THEN 2 ELSE 3

\* a default-mode invocation that has issued its three operations
C8_Witness ==
    \E p \in Procs :
        /\ DefaultMode(p) /\ Succeeded(p)
        /\ proc[p].ops = 3
        /\ proc[p].issued = << "read", "readSw", "write" >>

(* C9: the operations of an invocation are chained: at most one is in      *)
(* flight, and it is the last one issued; append is called, and a write    *)
(* issued, only once the first stage has resolved; in default mode the     *)
(* write is issued only once the read of build/service-worker.js has been  *)
(* called back.                                                            *)
C9_StrictlyChained ==
    \A p \in Procs :
        /\ Cardinality(proc[p].inflight) <= 1
        /\ proc[p].inflight # {} =>
             proc[p].inflight = { proc[p].issued[Len(proc[p].issued)] }
        /\ proc[p].appends >= 1 => proc[p].stage1 = "resolved"
        /\ proc[p].writes # <<>> =>
             /\ proc[p].stage1 = "resolved"
             /\ FirstOp(p) \notin proc[p].inflight
        /\ (DefaultMode(p) /\ proc[p].writes # <<>>) =>
             /\ proc[p].issued = << FirstOp(p), "readSw", "write" >>
             /\ "readSw" \notin proc[p].inflight

\* the write of a default-mode invocation in flight, alone
C9_Witness ==
    \E p \in Procs :
        /\ DefaultMode(p)
        /\ proc[p].pc = "appendWrite"
        /\ proc[p].inflight = { "write" }
        /\ ~proc[p].skipCompile

\* Sequences of distinct processes.
Chains ==
    { s \in UNION { [1..n -> Procs] : n \in 1..NumProcs } :
        \A i, j \in DOMAIN s : i # j => s[i] # s[j] }

CodesOf(s) == Flatten([i \in DOMAIN s |-> proc[s[i]].code.chars])

(* C10: with concurrent default-mode invocations and no lock,              *)
(* build/service-worker.js holds what the last write performed wrote; when *)
(* all have succeeded on a file that held E, that is E followed by the     *)
(* texts of a chain of distinct invocations ending with the last writer    *)
(* (for two, with texts A and B: E++A++B, E++B++A, E++A or E++B).          *)
(* base is E here: it changes only on a write that follows a failed read.  *)
C10_LastWriteWins ==
    /\ lastWriter # 0 =>
         /\ BUILD_SW_FILE_PATH \in DOMAIN fs
         /\ fs[BUILD_SW_FILE_PATH] = Encode(proc[lastWriter].result)
    /\ (\A p \in Procs : Succeeded(p)) =>
         \E s \in Chains :
            /\ s[Len(s)] = lastWriter
            /\ Decode(fs[BUILD_SW_FILE_PATH]) = base \o CodesOf(s)

\* both read E before either wrote: the text of one of them is lost
C10_LostUpdate ==
    /\ \A p \in Procs : Succeeded(p)
    /\ Len(appended) = NumProcs
    /\ \E p \in Procs :
         Decode(fs[BUILD_SW_FILE_PATH]) = base \o proc[p].code.chars

====
